---- MODULE Spec2Model ----
(***************************************************************************)
(* The cognition kernel of the agent scaffold: the ReasoningEngine         *)
(* (src/src/core/reasoning.py), the Planner (src/src/core/planner.py) and  *)
(* the Memory (src/src/core/memory.py).  Each object is modelled by its    *)
(* fields; each public method is one action.  Every object has its own     *)
(* specification (SpecReasoning, SpecPlanner, SpecMemory); the objects     *)
(* share no state.                                                         *)
(***************************************************************************)
EXTENDS Integers, Sequences, FiniteSets, TLC

VARIABLES
    \* ReasoningEngine fields (reasoning.py 62-73)
    method, engine_max_depth, facts, rules, confidences,
    inference_chain, derived_facts,
    \* what the latest ReasoningEngine call did (observation only)
    engine_call,
    \* Planner fields (planner.py 62-75)
    algorithm, planner_max_depth, actions, heuristic,
    nodes_explored, plan_length, plan_cost,
    \* what the latest Planner call was given and did (observation only)
    planner_call,
    \* Memory fields (memory.py 67-79)
    capacity, memory_type, working_memory, episodic_memory, semantic_memory,
    access_counts, last_access, priorities,
    \* the reading of datetime.now(), in hours
    clock,
    \* what the latest Memory call was given and did (observation only)
    memory_call

engine_vars == <<method, engine_max_depth, facts, rules, confidences,
                 inference_chain, derived_facts, engine_call>>

planner_vars == <<algorithm, planner_max_depth, actions, heuristic,
                  nodes_explored, plan_length, plan_cost, planner_call>>

memory_vars == <<capacity, memory_type, working_memory, episodic_memory,
                 semantic_memory, access_counts, last_access, priorities,
                 clock, memory_call>>

vars == <<engine_vars, planner_vars, memory_vars>>

\* A call on one object leaves the other objects alone.
EngineOnly == UNCHANGED <<planner_vars, memory_vars>>

PlannerOnly == UNCHANGED <<engine_vars, memory_vars>>

MemoryOnly == UNCHANGED <<engine_vars, planner_vars>>

\* The empty dict.
EmptyMap == [x \in {} |-> 0]

\* d[k] = v on a dict.
MapPut(d, k, v) == [x \in (DOMAIN d) \cup {k} |-> IF x = k THEN v ELSE d[x]]

\* d.get(k, default)
MapGet(d, k, default) == IF k \in DOMAIN d THEN d[k] ELSE default

NoValue == "None"

(***************************************************************************)
(* Confidences are Python floats; the model keeps them exact, as fractions *)
(* <<numerator, denominator>> in lowest terms.                             *)
(***************************************************************************)
RECURSIVE Gcd(_, _)
Gcd(a, b) == IF b = 0 THEN a ELSE Gcd(b, a % b)

Frac(n, d) == LET g == Gcd(n, d) IN IF g = 0 THEN <<0, 1>> ELSE <<n \div g, d \div g>>

FracMul(a, b) == Frac(a[1] * b[1], a[2] * b[2])

FracLess(a, b) == a[1] * b[2] < b[1] * a[2]

FracLeq(a, b) == a[1] * b[2] <= b[1] * a[2]

One == <<1, 1>>

Half == <<1, 2>>


(***************************************************************************)
(*                          ReasoningEngine                                *)
(***************************************************************************)

\* Bounds of the model.
MaxRules == 2

MaxDepth == 2

\* ReasoningEngine.__init__'s default max_depth.
DefaultMaxDepth == 10

\* Facts are (subject, predicate) tuples.
FactA == <<"sky", "blue">>

FactB == <<"weather", "clear">>

FactC == <<"sky", "bright">>

AllFacts == {FactA, FactB, FactC}

\* Confidences callers pass to add_fact.
ConfLevels == {Half, One}

\* The subjects callers query.
SubjectInputs == {"sky", "weather"}

Methods == {"forward_chaining", "backward_chaining", "probabilistic", "fuzzy"}

\* The dict add_rule builds (no 'type' key: rule.get('type') is None).
MakeRule(premises, conclusion, confidence) ==
    [type |-> NoValue, name |-> NoValue, premises |-> premises,
     conclusion |-> conclusion, confidence |-> confidence,
     condition |-> NoValue, action |-> NoValue]

\* The dict add_custom_rule builds.
MakeCustomRule(name, condition, action) ==
    [type |-> "custom", name |-> name, premises |-> <<>>,
     conclusion |-> NoValue, confidence |-> NoValue,
     condition |-> condition, action |-> action]

\* The (premises, conclusion, confidence) triples callers pass to add_rule.
RuleInputs ==
    { <<(<<FactA>>), FactB, Half>>,
      <<(<<FactB>>), FactC, One>>,
      <<(<<FactA, FactB>>), FactC, Half>>,
      <<(<<>>), FactA, One>> }

\* The callables callers pass to add_custom_rule: a condition over the engine
\* and an action on the engine.
CondAlways == [kind |-> "always", fact |-> NoValue]

CondAbsent(f) == [kind |-> "absent", fact |-> f]

ActNoop == [kind |-> "noop", fact |-> NoValue, confidence |-> NoValue]

ActAddFact(f, c) == [kind |-> "add_fact", fact |-> f, confidence |-> c]

CustomRuleInputs ==
    { <<"derive_bright", CondAbsent(FactC), ActAddFact(FactC, One)>>,
      <<"tick", CondAlways, ActNoop>> }

\* The engine state a call works on, with what the call has done so far.
EngineState(fs, cs, derived) ==
    [facts |-> fs, confidences |-> cs, derived_facts |-> derived,
     inference_chain |-> <<>>, changed |-> TRUE, depth |-> 0,
     raised |-> FALSE, firings |-> <<>>, custom_runs |-> 0, runs |-> EmptyMap]

\* rule['condition'](self)
EvalCondition(cond, st) ==
    IF cond.kind = "always" THEN TRUE ELSE cond.fact \notin st.facts

\* rule['action'](self); an add_fact action calls self.add_fact.
RunAction(act, st) ==
    IF act.kind = "add_fact"
    THEN [st EXCEPT !.facts = @ \cup {act.fact},
                    !.confidences = MapPut(@, act.fact, act.confidence)]
    ELSE st

\* all(premise in self.facts for premise in premises)
AllSatisfied(premises, fs) == \A i \in 1..Len(premises) : premises[i] \in fs

\* [self.confidences.get(p, 1.0) for p in premises]
PremiseConfidences(premises, cs) ==
    [i \in 1..Len(premises) |-> MapGet(cs, premises[i], One)]

\* Python's min over a non-empty list.
RECURSIVE MinOf(_)
MinOf(s) ==
    IF Len(s) = 1 THEN s[1]
    ELSE LET m == MinOf(Tail(s)) IN IF FracLess(m, s[1]) THEN m ELSE s[1]

RECURSIVE MaxOf(_)
MaxOf(s) ==
    IF Len(s) = 1 THEN s[1]
    ELSE LET m == MaxOf(Tail(s)) IN IF FracLess(s[1], m) THEN m ELSE s[1]

ConclusionConfidenceMax(premise_confidences, rule_confidence) ==
    FracMul(MaxOf(premise_confidences), rule_confidence)

\* min(premise_confidences) * rule_confidence
ConclusionConfidence(premise_confidences, rule_confidence) ==
    FracMul(MinOf(premise_confidences), rule_confidence)

ConclusionAlways(conclusion, fs) == TRUE

\* conclusion not in self.facts
ConclusionIsNew(conclusion, fs) == conclusion \notin fs

\* The body of the loop over self.rules, for one rule.
ApplyRule(st, rule) ==
    IF st.raised THEN st
    ELSE IF rule.type = "custom"
    THEN IF EvalCondition(rule.condition, st)
         THEN [RunAction(rule.action, st) EXCEPT
                    !.changed = TRUE,
                    !.custom_runs = @ + 1,
                    !.runs = MapPut(@, rule.name, MapGet(@, rule.name, 0) + 1)]
         ELSE st
    ELSE IF AllSatisfied(rule.premises, st.facts)
            /\ ConclusionIsNew(rule.conclusion, st.facts)
    THEN IF Len(rule.premises) = 0
         THEN \* min([]) raises ValueError
              [st EXCEPT !.raised = TRUE]
         ELSE LET pcs == PremiseConfidences(rule.premises, st.confidences)
                  cc  == ConclusionConfidence(pcs, rule.confidence)
                  cs  == MapPut(st.confidences, rule.conclusion, cc)
              IN [st EXCEPT
                    !.facts = @ \cup {rule.conclusion},
                    !.confidences = cs,
                    !.derived_facts = @ \cup {rule.conclusion},
                    !.inference_chain = Append(@,
                        [depth |-> st.depth, premises |-> rule.premises,
                         conclusion |-> rule.conclusion, confidence |-> cc]),
                    !.changed = TRUE,
                    !.firings = Append(@,
                        [conclusion |-> rule.conclusion,
                         rule_confidence |-> rule.confidence,
                         premise_confidences |-> pcs,
                         stored |-> cs[rule.conclusion]])]
    ELSE st

\* for rule in self.rules: ...
RECURSIVE RulePass(_, _, _)
RulePass(st, rs, i) ==
    IF i > Len(rs) THEN st ELSE RulePass(ApplyRule(st, rs[i]), rs, i + 1)

WithinDepthInclusive(depth, maxd) == depth <= maxd

\* depth < self.max_depth
WithinDepth(depth, maxd) == depth < maxd

\* while changed and depth < self.max_depth: ...
RECURSIVE ChainLoop(_, _, _)
ChainLoop(st, rs, maxd) ==
    IF st.raised \/ ~st.changed \/ ~WithinDepth(st.depth, maxd) THEN st
    ELSE ChainLoop(RulePass([st EXCEPT !.changed = FALSE, !.depth = @ + 1], rs, 1),
                   rs, maxd)

ForwardChaining(fs, cs, rs, maxd, derived) ==
    ChainLoop(EngineState(fs, cs, derived), rs, maxd)

\* The placeholder strategies and the unknown-method branch return [].
NoInference(fs, cs, derived) ==
    [EngineState(fs, cs, derived) EXCEPT !.changed = FALSE]

TrackingKept(old_derived) == old_derived

\* self.derived_facts.clear()
TrackingCleared(old_derived) == {}

InferAlwaysChains(m, fs, cs, rs, maxd, old_derived) ==
    ForwardChaining(fs, cs, rs, maxd, TrackingCleared(old_derived))

\* infer(): clear the tracking, dispatch on self.method.
InferResult(m, fs, cs, rs, maxd, old_derived) ==
    IF m = "forward_chaining"
    THEN ForwardChaining(fs, cs, rs, maxd, TrackingCleared(old_derived))
    ELSE NoInference(fs, cs, TrackingCleared(old_derived))

ReturnAllFacts(m, st) == IF m = "forward_chaining" THEN st.facts ELSE {}

\* return list(self.derived_facts) under forward chaining, [] otherwise.
ReturnValue(m, st) == IF m = "forward_chaining" THEN st.derived_facts ELSE {}

\* No rule with premises has its premises present and its conclusion absent.
Closed(fs, rs) ==
    \A i \in 1..Len(rs) :
        rs[i].type = "custom"
        \/ ~AllSatisfied(rs[i].premises, fs)
        \/ rs[i].conclusion \in fs

\* The record of a call that is not infer().
PlainCall(op) ==
    [op |-> op, raised |-> FALSE, ret |-> {}, pre_facts |-> {},
     pre_closed |-> FALSE, passes |-> 0, firings |-> <<>>, custom_runs |-> 0,
     runs |-> EmptyMap, after_infer |-> FALSE, fact |-> <<"None", "None">>,
     confidence |-> NoValue, subject |-> NoValue, results |-> {},
     explanation |-> [derived |-> FALSE, steps |-> <<>>], produced |-> {}]

\* The same, keeping the facts that rules have concluded since the engine was
\* built or cleared.
LaterCall(op) == [PlainCall(op) EXCEPT !.produced = engine_call.produced]

\* ReasoningEngine.explain: the "not a derived fact" message for a fact that
\* is not in derived_facts, else the steps of the inference chain that
\* conclude the fact, in order.
Explain(fact, derived, chain) ==
    [derived |-> fact \in derived,
     steps |-> IF fact \in derived
               THEN SelectSeq(chain, LAMBDA step : step.conclusion = fact)
               ELSE <<>>]

EngineInit ==
    /\ \/ method = "forward_chaining" /\ engine_max_depth \in 0..MaxDepth
       \/ method \in Methods \ {"forward_chaining"} /\ engine_max_depth = DefaultMaxDepth
    /\ facts = {}
    /\ rules = <<>>
    /\ confidences = EmptyMap
    /\ inference_chain = <<>>
    /\ derived_facts = {}
    /\ engine_call = PlainCall("init")

InsertOnce(cs, fact, confidence) ==
    IF fact \in DOMAIN cs THEN cs ELSE MapPut(cs, fact, confidence)

\* self.confidences[fact] = confidence
Upsert(cs, fact, confidence) == MapPut(cs, fact, confidence)

\* ReasoningEngine.query: the (predicate, confidence) pairs of the facts about
\* the subject.
Query(subject, fs, cs) ==
    {<<f[2], MapGet(cs, f, One)>> : f \in {g \in fs : g[1] = subject}}

add_fact(fact, confidence) ==
    /\ facts' = facts \cup {fact}
    /\ confidences' = Upsert(confidences, fact, confidence)
    /\ engine_call' = [LaterCall("add_fact") EXCEPT !.fact = fact,
                                                   !.confidence = confidence]
    /\ UNCHANGED <<method, engine_max_depth, rules, inference_chain, derived_facts>>
    /\ EngineOnly

add_rule(premises, conclusion, confidence) ==
    /\ Len(rules) < MaxRules
    /\ rules' = Append(rules, MakeRule(premises, conclusion, confidence))
    /\ engine_call' = LaterCall("add_rule")
    /\ UNCHANGED <<method, engine_max_depth, facts, confidences, inference_chain,
                   derived_facts>>
    /\ EngineOnly

add_custom_rule(name, condition, action) ==
    /\ Len(rules) < MaxRules
    /\ rules' = Append(rules, MakeCustomRule(name, condition, action))
    /\ engine_call' = LaterCall("add_custom_rule")
    /\ UNCHANGED <<method, engine_max_depth, facts, confidences, inference_chain,
                   derived_facts>>
    /\ EngineOnly

infer ==
    LET st == InferResult(method, facts, confidences, rules, engine_max_depth,
                          derived_facts)
    IN /\ facts' = st.facts
       /\ confidences' = st.confidences
       /\ derived_facts' = st.derived_facts
       /\ inference_chain' = st.inference_chain
       /\ engine_call' =
            [PlainCall("infer") EXCEPT
                !.raised = st.raised,
                !.ret = IF st.raised THEN {} ELSE ReturnValue(method, st),
                !.pre_facts = facts,
                !.pre_closed = Closed(facts, rules),
                !.passes = st.depth,
                !.firings = st.firings,
                !.custom_runs = st.custom_runs,
                !.runs = st.runs,
                !.after_infer = engine_call.op = "infer" /\ ~engine_call.raised,
                !.produced = engine_call.produced \cup st.derived_facts]
       /\ UNCHANGED <<method, engine_max_depth, rules>>
       /\ EngineOnly

explain(fact) ==
    /\ engine_call' =
          [LaterCall("explain") EXCEPT
              !.fact = fact,
              !.explanation = Explain(fact, derived_facts, inference_chain)]
    /\ UNCHANGED <<method, engine_max_depth, facts, rules, confidences,
                   inference_chain, derived_facts>>
    /\ EngineOnly

engine_query(subject) ==
    /\ engine_call' =
          [LaterCall("query") EXCEPT
              !.subject = subject,
              !.results = Query(subject, facts, confidences)]
    /\ UNCHANGED <<method, engine_max_depth, facts, rules, confidences,
                   inference_chain, derived_facts>>
    /\ EngineOnly

engine_clear ==
    /\ facts' = {}
    /\ rules' = <<>>
    /\ confidences' = EmptyMap
    /\ inference_chain' = <<>>
    /\ derived_facts' = {}
    /\ engine_call' = PlainCall("clear")
    /\ UNCHANGED <<method, engine_max_depth>>
    /\ EngineOnly

EngineNext ==
    \/ \E f \in AllFacts, c \in ConfLevels : add_fact(f, c)
    \/ \E r \in RuleInputs : add_rule(r[1], r[2], r[3])
    \/ \E r \in CustomRuleInputs : add_custom_rule(r[1], r[2], r[3])
    \/ infer
    \/ \E f \in AllFacts : explain(f)
    \/ \E s \in SubjectInputs : engine_query(s)
    \/ engine_clear





(***************************************************************************)
(*                               Planner                                   *)
(***************************************************************************)

\* Bounds of the model: the longest action list, and the two node budgets
\* (max_depth) a planner is built with besides 0.
MaxActions == 4

SmallBudget == 2

LargeBudget == 6

\* Planner.__init__'s default max_depth.
DefaultPlannerDepth == 100

Algorithms == {"a_star", "bfs", "dfs", "strips", "htn"}

\* States are dicts over these keys, listed in sorted order.
KeyOrder == <<"at", "door">>

AtState(v) == [k \in {"at"} |-> v]

\* The callables of an action descriptor: the precondition state.get(key) ==
\* value, and the effect that sets key to value in the copy it is given.
MakeAction(name, pre_value, eff_value, cost) ==
    [name |-> name,
     preconditions |-> [key |-> "at", value |-> pre_value],
     effects |-> [key |-> "at", value |-> eff_value],
     cost |-> cost]

\* The action descriptors callers register, in the order they register them
\* (a caller may leave any of them out).
ActionInputs ==
    << MakeAction("sx", "S", "X", 3),
       MakeAction("sa", "S", "A", 1),
       MakeAction("sb", "S", "B", 1),
       MakeAction("ax", "A", "X", 1),
       MakeAction("xg", "X", "G", 5) >>

\* The place of a registered action in ActionInputs (0: not one of them).
InputIndex(a) ==
    IF \E i \in 1..Len(ActionInputs) : ActionInputs[i] = a
    THEN CHOOSE i \in 1..Len(ActionInputs) : ActionInputs[i] = a
    ELSE 0

\* Action names in string order, for the comparison of paths.
NameOrder == <<"ax", "sa", "sb", "sx", "xg">>

\* The heuristics callers set: none, the number of goal keys the state
\* misses, and a table that is large on the detour state A.
HeuristicInputs == {"mismatch", "detour"}

\* The initial states and goals callers plan for.
InitialStateInputs == {AtState("S"), AtState("X"), EmptyMap}

GoalInputs == {AtState("G"), AtState("X"), [k \in {"door"} |-> NoValue]}

\* The actions argument of create_plan: None (use the registered actions) or
\* a list.
NoActionList == [given |-> FALSE, list |-> <<>>]

ActionList(l) == [given |-> TRUE, list |-> l]

ActionListInputs ==
    { NoActionList,
      ActionList(<<MakeAction("xg", "X", "G", 5), MakeAction("sx", "S", "X", 3)>>) }

\* The failed_action argument of replan: None, or the name of an action.
FailedActionInputs == {NoValue, "xg"}

\* action['preconditions'](current_state)
EvalPrecondition(pre, state) == MapGet(state, pre.key, NoValue) = pre.value

\* action['effects'](current_state.copy())
ApplyEffect(eff, state) == MapPut(state, eff.key, eff.value)

\* self.heuristic(next_state, goal)
EvalHeuristic(h, state, goal) ==
    IF h = "detour"
    THEN IF MapGet(state, "at", NoValue) = "A" THEN 5 ELSE 0
    ELSE Cardinality({k \in DOMAIN goal : MapGet(state, k, NoValue) # goal[k]})

\* Planner._is_goal: state.get(key) == value for every goal item.
IsGoal(state, goal) ==
    \A k \in DOMAIN goal : MapGet(state, k, NoValue) = goal[k]

\* Planner._state_to_key: str(sorted(state.items())), the (key, value) pairs
\* in key order.
StateToKey(state) ==
    LET ks == SelectSeq(KeyOrder, LAMBDA k : k \in DOMAIN state)
    IN [i \in 1..Len(ks) |-> <<ks[i], state[ks[i]]>>]

NewPathPrepend(path, name) == <<name>> \o path

\* path + [action['name']]
NewPath(path, name) == Append(path, name)

\* What a search hands back to create_plan.
SearchResult(plan, found, raised, nodes, cost, trace) ==
    [plan |-> plan, found |-> found, raised |-> raised,
     nodes_explored |-> nodes, plan_cost |-> cost, trace |-> trace]

\* What a search did with one entry it took from its frontier: "skipped" (its
\* key was in visited), "deep" (the depth test of the depth-first search),
\* "goal" (goal test passed) or "expanded" (goal test failed, successors
\* pushed).
Removal(cur_state, cost, kind) ==
    [key |-> StateToKey(cur_state), state |-> cur_state, cost |-> cost,
     kind |-> kind]

WithinBudgetInclusive(nodes, maxd) == nodes <= maxd

\* self.nodes_explored < self.max_depth
WithinBudget(nodes, maxd) == nodes < maxd

VisitedKeep(visited, state_key) == visited

\* visited.add(state_key)
VisitedAdd(visited, state_key) == visited \cup {state_key}

(***************************************************************************)
(* heapq on tuples (f_score, state, path, cost).  Python compares tuples   *)
(* at the first position where they differ: equal f_score and different    *)
(* states compares two dicts, which raises TypeError.                      *)
(***************************************************************************)
NameRank(n) == CHOOSE i \in 1..Len(NameOrder) : NameOrder[i] = n

\* list < list on lists of names
RECURSIVE PathLess(_, _)
PathLess(p, q) ==
    IF q = <<>> THEN FALSE
    ELSE IF p = <<>> THEN TRUE
    ELSE IF Head(p) # Head(q) THEN NameRank(Head(p)) < NameRank(Head(q))
    ELSE PathLess(Tail(p), Tail(q))

\* a < b on frontier tuples: "lt", "ge" or "err" (TypeError)
TupleLess(a, b) ==
    IF a.f # b.f THEN (IF a.f < b.f THEN "lt" ELSE "ge")
    ELSE IF a.state # b.state THEN "err"
    ELSE IF a.path # b.path THEN (IF PathLess(a.path, b.path) THEN "lt" ELSE "ge")
    ELSE IF a.g < b.g THEN "lt" ELSE "ge"

\* heapq._siftdown(heap, startpos, pos); positions count from 0.
RECURSIVE SiftDown(_, _, _, _)
SiftDown(heap, startpos, pos, newitem) ==
    IF pos > startpos
    THEN LET parentpos == (pos - 1) \div 2
             parent == heap[parentpos + 1]
             c == TupleLess(newitem, parent)
         IN IF c = "err" THEN [heap |-> heap, err |-> TRUE]
            ELSE IF c = "lt"
            THEN SiftDown([heap EXCEPT ![pos + 1] = parent], startpos, parentpos, newitem)
            ELSE [heap |-> [heap EXCEPT ![pos + 1] = newitem], err |-> FALSE]
    ELSE [heap |-> [heap EXCEPT ![pos + 1] = newitem], err |-> FALSE]

\* heapq._siftup(heap, pos)
RECURSIVE SiftUp(_, _, _, _)
SiftUp(heap, startpos, pos, newitem) ==
    LET endpos == Len(heap)
        childpos == 2 * pos + 1
        rightpos == childpos + 1
    IN IF childpos < endpos
       THEN LET c == IF rightpos < endpos
                     THEN TupleLess(heap[childpos + 1], heap[rightpos + 1])
                     ELSE "lt"
                pick == IF c = "lt" THEN childpos ELSE rightpos
            IN IF c = "err" THEN [heap |-> heap, err |-> TRUE]
               ELSE SiftUp([heap EXCEPT ![pos + 1] = heap[pick + 1]], startpos, pick, newitem)
       ELSE SiftDown(heap, startpos, pos, newitem)

\* heapq.heappush(heap, item)
HeapPush(heap, item) == SiftDown(Append(heap, item), 0, Len(heap), item)

HeapPopLast(heap) ==
    [item |-> heap[Len(heap)], heap |-> SubSeq(heap, 1, Len(heap) - 1),
     err |-> FALSE]

\* heapq.heappop(heap) on a non-empty heap
HeapPop(heap) ==
    LET lastelt == heap[Len(heap)]
        rest == SubSeq(heap, 1, Len(heap) - 1)
    IN IF rest = <<>>
       THEN [item |-> lastelt, heap |-> rest, err |-> FALSE]
       ELSE LET r == SiftUp([rest EXCEPT ![1] = lastelt], 0, 0, lastelt)
            IN [item |-> rest[1], heap |-> r.heap, err |-> r.err]

\* Planner._a_star_search, "for action in self.actions": push the successors
\* of the popped entry.
RECURSIVE ExpandAStar(_, _, _, _, _, _)
ExpandAStar(frontier, acts, i, cur, h, goal) ==
    IF i > Len(acts) THEN [heap |-> frontier, err |-> FALSE]
    ELSE IF EvalPrecondition(acts[i].preconditions, cur.state)
    THEN LET next_state == ApplyEffect(acts[i].effects, cur.state)
             new_g_cost == cur.g + acts[i].cost
             h_cost == IF h = NoValue THEN 0 ELSE EvalHeuristic(h, next_state, goal)
             pushed == HeapPush(frontier,
                          [f |-> new_g_cost + h_cost, state |-> next_state,
                           path |-> NewPath(cur.path, acts[i].name),
                           g |-> new_g_cost])
         IN IF pushed.err THEN pushed
            ELSE ExpandAStar(pushed.heap, acts, i + 1, cur, h, goal)
    ELSE ExpandAStar(frontier, acts, i + 1, cur, h, goal)

\* Planner._a_star_search, the while loop.
RECURSIVE AStarLoop(_, _, _, _, _, _, _, _)
AStarLoop(frontier, visited, nodes, acts, h, goal, maxd, trace) ==
    IF frontier = <<>> \/ ~WithinBudget(nodes, maxd)
    THEN SearchResult(<<>>, FALSE, FALSE, nodes, 0, trace)
    ELSE LET popped == HeapPop(frontier)
             cur == popped.item
             state_key == StateToKey(cur.state)
         IN IF popped.err THEN SearchResult(<<>>, FALSE, TRUE, nodes, 0, trace)
            ELSE IF state_key \in visited
            THEN AStarLoop(popped.heap, visited, nodes + 1, acts, h, goal, maxd,
                           Append(trace, Removal(cur.state, cur.g, "skipped")))
            ELSE IF IsGoal(cur.state, goal)
            THEN SearchResult(cur.path, TRUE, FALSE, nodes + 1, cur.g,
                              Append(trace, Removal(cur.state, cur.g, "goal")))
            ELSE LET grown == ExpandAStar(popped.heap, acts, 1, cur, h, goal)
                     done == Append(trace, Removal(cur.state, cur.g, "expanded"))
                 IN IF grown.err
                    THEN SearchResult(<<>>, FALSE, TRUE, nodes + 1, 0, done)
                    ELSE AStarLoop(grown.heap, VisitedAdd(visited, state_key),
                                   nodes + 1, acts, h, goal, maxd, done)

\* Planner._a_star_search
AStarSearch(initial_state, goal, acts, h, maxd) ==
    AStarLoop(<<[f |-> 0, state |-> initial_state, path |-> <<>>, g |-> 0]>>,
              {}, 0, acts, h, goal, maxd, <<>>)

\* The successors of an entry of the queue or the stack, in action order.
RECURSIVE Successors(_, _, _)
Successors(acts, i, cur) ==
    IF i > Len(acts) THEN <<>>
    ELSE IF EvalPrecondition(acts[i].preconditions, cur.state)
    THEN <<[state |-> ApplyEffect(acts[i].effects, cur.state),
            path |-> NewPath(cur.path, acts[i].name),
            cost |-> cur.cost + acts[i].cost,
            depth |-> cur.depth + 1]>> \o Successors(acts, i + 1, cur)
    ELSE Successors(acts, i + 1, cur)

QueuePopRight(queue) == [item |-> queue[Len(queue)],
                         rest |-> SubSeq(queue, 1, Len(queue) - 1)]

\* queue.popleft()
QueuePopLeft(queue) == [item |-> Head(queue), rest |-> Tail(queue)]

\* Planner._breadth_first_search, the while loop.
RECURSIVE BfsLoop(_, _, _, _, _, _, _)
BfsLoop(queue, visited, nodes, acts, goal, maxd, trace) ==
    IF queue = <<>> \/ ~WithinBudget(nodes, maxd)
    THEN SearchResult(<<>>, FALSE, FALSE, nodes, 0, trace)
    ELSE LET popped == QueuePopLeft(queue)
             cur == popped.item
             state_key == StateToKey(cur.state)
         IN IF state_key \in visited
            THEN BfsLoop(popped.rest, visited, nodes + 1, acts, goal, maxd,
                         Append(trace, Removal(cur.state, cur.cost, "skipped")))
            ELSE IF IsGoal(cur.state, goal)
            THEN SearchResult(cur.path, TRUE, FALSE, nodes + 1, cur.cost,
                              Append(trace, Removal(cur.state, cur.cost, "goal")))
            ELSE BfsLoop(popped.rest \o Successors(acts, 1, cur),
                         VisitedAdd(visited, state_key), nodes + 1, acts, goal,
                         maxd,
                         Append(trace, Removal(cur.state, cur.cost, "expanded")))

\* Planner._breadth_first_search
BreadthFirstSearch(initial_state, goal, acts, maxd) ==
    BfsLoop(<<[state |-> initial_state, path |-> <<>>, cost |-> 0, depth |-> 0]>>,
            {}, 0, acts, goal, maxd, <<>>)

\* Planner._depth_first_search, the while loop.
RECURSIVE DfsLoop(_, _, _, _, _, _, _)
DfsLoop(stack, visited, nodes, acts, goal, maxd, trace) ==
    IF stack = <<>> \/ ~WithinBudget(nodes, maxd)
    THEN SearchResult(<<>>, FALSE, FALSE, nodes, 0, trace)
    ELSE LET cur == stack[Len(stack)]
             rest == SubSeq(stack, 1, Len(stack) - 1)
             state_key == StateToKey(cur.state)
         IN IF cur.depth > maxd
            THEN DfsLoop(rest, visited, nodes + 1, acts, goal, maxd,
                         Append(trace, Removal(cur.state, cur.cost, "deep")))
            ELSE IF state_key \in visited
            THEN DfsLoop(rest, visited, nodes + 1, acts, goal, maxd,
                         Append(trace, Removal(cur.state, cur.cost, "skipped")))
            ELSE IF IsGoal(cur.state, goal)
            THEN SearchResult(cur.path, TRUE, FALSE, nodes + 1, cur.cost,
                              Append(trace, Removal(cur.state, cur.cost, "goal")))
            ELSE DfsLoop(rest \o Successors(acts, 1, cur),
                         VisitedAdd(visited, state_key), nodes + 1, acts, goal,
                         maxd,
                         Append(trace, Removal(cur.state, cur.cost, "expanded")))

\* Planner._depth_first_search
DepthFirstSearch(initial_state, goal, acts, maxd) ==
    DfsLoop(<<[state |-> initial_state, path |-> <<>>, cost |-> 0, depth |-> 0]>>,
            {}, 0, acts, goal, maxd, <<>>)

\* create_plan's dispatch on self.algorithm ('strips' falls back to A*; an
\* unknown name returns [] without searching).
RunSearch(alg, initial_state, goal, acts, h, maxd) ==
    IF alg \in {"a_star", "strips"} THEN AStarSearch(initial_state, goal, acts, h, maxd)
    ELSE IF alg = "bfs" THEN BreadthFirstSearch(initial_state, goal, acts, maxd)
    ELSE IF alg = "dfs" THEN DepthFirstSearch(initial_state, goal, acts, maxd)
    ELSE SearchResult(<<>>, FALSE, FALSE, 0, 0, <<>>)

\* The record of a Planner call that is not a search.
PlannerPlainCall(op) ==
    [op |-> op, initial |-> EmptyMap, goal |-> EmptyMap,
     action_list |-> NoActionList, failed_action |-> NoValue, ret |-> <<>>,
     found |-> FALSE, raised |-> FALSE, trace |-> <<>>,
     before |-> [plan_cost |-> 0, plan_length |-> 0]]

PlannerInit ==
    /\ algorithm \in Algorithms
    /\ planner_max_depth \in {0, SmallBudget, LargeBudget}
    /\ actions = <<>>
    /\ heuristic = NoValue
    /\ nodes_explored = 0
    /\ plan_length = 0
    /\ plan_cost = 0
    /\ planner_call = PlannerPlainCall("init")

register_action(action) ==
    /\ Len(actions) < MaxActions
    /\ \A i \in 1..Len(actions) : InputIndex(actions[i]) < InputIndex(action)
    /\ actions' = Append(actions, action)
    /\ planner_call' = PlannerPlainCall("register_action")
    /\ UNCHANGED <<algorithm, planner_max_depth, heuristic, nodes_explored,
                   plan_length, plan_cost>>
    /\ PlannerOnly

set_heuristic(h) ==
    /\ heuristic' = h
    /\ planner_call' = PlannerPlainCall("set_heuristic")
    /\ UNCHANGED <<algorithm, planner_max_depth, actions, nodes_explored,
                   plan_length, plan_cost>>
    /\ PlannerOnly

ActionsRestored(old, acts) == old

\* self.actions = actions: the list stays the planner's action set.
ActionsAfter(old, acts) == acts

StatKept(old) == old

\* self.plan_length = 0; self.plan_cost = 0.0
StatReset(old) == 0

\* What create_plan(initial_state, goal, actions) leaves in the planner and
\* hands back; replan re-enters it, and failed_action is what replan was given
\* (None in create_plan).
PlanCall(op, initial_state, goal, action_list, failed_action) ==
    LET acts == IF action_list.given THEN action_list.list ELSE actions
        r == RunSearch(algorithm, initial_state, goal, acts, heuristic,
                       planner_max_depth)
    IN [actions |-> ActionsAfter(actions, acts),
        nodes_explored |-> r.nodes_explored,
        plan_cost |-> IF r.found THEN r.plan_cost ELSE StatReset(plan_cost),
        plan_length |-> IF ~r.raised /\ r.plan # <<>> THEN Len(r.plan)
                        ELSE StatReset(plan_length),
        call |-> [op |-> op, initial |-> initial_state, goal |-> goal,
                  action_list |-> action_list,
                  failed_action |-> failed_action, ret |-> r.plan,
                  found |-> r.found, raised |-> r.raised, trace |-> r.trace,
                  before |-> [plan_cost |-> plan_cost,
                              plan_length |-> plan_length]]]

create_plan(initial_state, goal, action_list) ==
    /\ \E done \in {PlanCall("create_plan", initial_state, goal, action_list,
                             NoValue)} :
          /\ actions' = done.actions
          /\ nodes_explored' = done.nodes_explored
          /\ plan_cost' = done.plan_cost
          /\ plan_length' = done.plan_length
          /\ planner_call' = done.call
    /\ UNCHANGED <<algorithm, planner_max_depth, heuristic>>
    /\ PlannerOnly

ReplanWithout(acts, failed_action) ==
    ActionList(SelectSeq(acts, LAMBDA a : a.name # failed_action))

\* The actions argument replan hands to create_plan: none, whatever
\* failed_action is.
ReplanActions(acts, failed_action) == NoActionList

\* replan(current_state, goal, failed_action)
replan(current_state, goal, failed_action) ==
    /\ \E done \in {PlanCall("replan", current_state, goal,
                             ReplanActions(actions, failed_action),
                             failed_action)} :
          /\ actions' = done.actions
          /\ nodes_explored' = done.nodes_explored
          /\ plan_cost' = done.plan_cost
          /\ plan_length' = done.plan_length
          /\ planner_call' = done.call
    /\ UNCHANGED <<algorithm, planner_max_depth, heuristic>>
    /\ PlannerOnly

PlannerNext ==
    \/ \E i \in 1..Len(ActionInputs) : register_action(ActionInputs[i])
    \/ \E h \in HeuristicInputs : set_heuristic(h)
    \/ \E s \in InitialStateInputs, g \in GoalInputs,
          l \in ActionListInputs : create_plan(s, g, l)
    \/ \E s \in InitialStateInputs, g \in GoalInputs,
          f \in FailedActionInputs : replan(s, g, f)

(***************************************************************************)
(*                                Memory                                   *)
(***************************************************************************)

\* Bounds of the model: the largest episodic capacity, the number of store
\* calls, the number of recall calls, the latest reading of the clock (in
\* hours), and the largest k recall is called with.
MaxCapacity == 2

MaxStores == 3

MaxRecalls == 1

MaxTime == 2

MaxK == 2

\* Memory.__init__'s default capacity, and the maxlen of working_memory.
DefaultCapacity == 10000

WorkingMaxLen == 100

\* _generate_id keeps hash(str(item)) % 10000.
HashModulus == 10000

\* The two scores of _calculate_similarity, 0.7 and 0.5, in tenths.
SimState == 7

SimDefault == 5

MemoryTypes == {"working", "episodic", "semantic"}

\* What callers store: a dict with a 'state' entry and no 'key', and a dict
\* with a 'key' entry and no 'state'.  Every store call is given a dict of its
\* own.
PayloadInputs ==
    << [state |-> TRUE, key |-> NoValue],
       [state |-> FALSE, key |-> "k"] >>

PriorityInputs == {0, 1, 2}

\* similarity_threshold, in tenths.
ThresholdInputs == {5, 6, 8}

\* A query that is a dict, and one that is not.
QueryInputs == {"dict", "text"}

\* The memory_type argument of clear.
ClearInputs == MemoryTypes \cup {NoValue}

PayloadIndex(payload) ==
    CHOOSE i \in 1..Len(PayloadInputs) : PayloadInputs[i] = payload

\* hash(str(item)): equal texts hash alike, and the texts of the model, which
\* differ in the payload, the priority or the timestamp, hash apart.
HashOf(payload, priority, timestamp) ==
    PayloadIndex(payload) * 100 + priority * 10 + timestamp

\* Memory._generate_id: f"mem_{timestamp.timestamp()}_{hash(str(item)) % 10000}"
GenerateId(payload, priority, timestamp) ==
    <<timestamp, HashOf(payload, priority, timestamp) % HashModulus>>

\* The item after store has added its metadata.
MakeItem(payload, priority, timestamp) ==
    [payload |-> payload,
     timestamp |-> timestamp,
     priority |-> priority,
     access_count |-> 0,
     id |-> GenerateId(payload, priority, timestamp)]

NoItem ==
    [payload |-> [state |-> FALSE, key |-> NoValue],
     timestamp |-> 0, priority |-> 0, access_count |-> 0, id |-> <<0, 0>>]

DequeAppendUnbounded(q, x, maxlen) == Append(q, x)

DequeRemoveAll(q, x) == SelectSeq(q, LAMBDA y : y # x)

ImportanceAdditive(memory, prios, counts, current_time) ==
    <<MapGet(prios, memory.id, 1) + MapGet(counts, memory.id, 0),
      1 + (current_time - memory.timestamp)>>

\* deque(maxlen=maxlen).append(x): a full deque drops its leftmost element, a
\* deque of maxlen 0 stays empty.
DequeAppend(q, x, maxlen) ==
    IF maxlen = 0 THEN q
    ELSE IF Len(q) >= maxlen THEN Append(Tail(q), x)
    ELSE Append(q, x)

\* deque.remove(x): the first element equal to x goes.
RECURSIVE DequeRemove(_, _)
DequeRemove(q, x) ==
    IF q = <<>> THEN q
    ELSE IF Head(q) = x THEN Tail(q)
    ELSE <<Head(q)>> \o DequeRemove(Tail(q), x)

\* Scores are kept exact, as fractions <<numerator, denominator>> with a
\* positive denominator.
ScoreLess(a, b) == a[1] * b[2] < b[1] * a[2]

ImportanceIgnoringAccess(memory, prios, counts, current_time) ==
    <<MapGet(prios, memory.id, 1), 1 + (current_time - memory.timestamp)>>

\* _forget_least_important's score of one item:
\* priority * (1 + access_count) * recency, recency = 1 / (1 + age in hours).
Importance(memory, prios, counts, current_time) ==
    LET priority == MapGet(prios, memory.id, 1)
        access_count == MapGet(counts, memory.id, 0)
        age == current_time - memory.timestamp
    IN <<priority * (1 + access_count), 1 + age>>

\* list.sort(key=lambda x: x[0], reverse=reverse) on (score, memory) pairs: a
\* stable sort, which leaves pairs of equal score in their order.
RECURSIVE InsertByKey(_, _, _)
InsertByKey(sorted, x, reverse) ==
    IF sorted = <<>> THEN <<x>>
    ELSE IF (IF reverse THEN ScoreLess(Head(sorted)[1], x[1])
                        ELSE ScoreLess(x[1], Head(sorted)[1]))
    THEN <<x>> \o sorted
    ELSE <<Head(sorted)>> \o InsertByKey(Tail(sorted), x, reverse)

SortKeepOrder(pairs, reverse) == pairs

RECURSIVE SortByKey(_, _)
SortByKey(pairs, reverse) ==
    IF pairs = <<>> THEN <<>>
    ELSE InsertByKey(SortByKey(SubSeq(pairs, 1, Len(pairs) - 1), reverse),
                     pairs[Len(pairs)], reverse)

\* Memory._forget_least_important: the buffer it leaves and the item it took.
ForgetLeastImportant(q, prios, counts, current_time) ==
    IF q = <<>> THEN [memory |-> q, evicted |-> FALSE, victim |-> NoItem]
    ELSE LET importance_scores ==
                 [i \in 1..Len(q) |->
                    <<Importance(q[i], prios, counts, current_time), q[i]>>]
             least_important == SortByKey(importance_scores, FALSE)[1][2]
         IN [memory |-> DequeRemove(q, least_important),
             evicted |-> TRUE, victim |-> least_important]

\* key = item.get('key') or item_id
SemanticKey(item) ==
    IF item.payload.key # NoValue
    THEN [given |-> TRUE, name |-> item.payload.key, id |-> <<0, 0>>]
    ELSE [given |-> FALSE, name |-> NoValue, id |-> item.id]

\* self.semantic_memory[key] = item on a dict, which keeps its keys in the
\* order they were first set.
SemanticPut(sm, key, item) ==
    IF \E i \in 1..Len(sm) : sm[i].key = key
    THEN [i \in 1..Len(sm) |->
            IF sm[i].key = key THEN [key |-> key, item |-> item] ELSE sm[i]]
    ELSE Append(sm, [key |-> key, item |-> item])

\* Memory._calculate_similarity, in tenths.
CalculateSimilarity(query, memory) ==
    IF query = "dict" /\ memory.payload.state THEN SimState ELSE SimDefault

\* The loop of recall over the memories: the (score, memory) pairs at or
\* above the threshold, and the access tables it leaves.
RECURSIVE RecallScan(_, _, _, _, _, _, _)
RecallScan(memories, query, similarity_threshold, scored, counts, last, now) ==
    IF memories = <<>>
    THEN [scored |-> scored, counts |-> counts, last |-> last]
    ELSE LET memory == Head(memories)
             similarity == CalculateSimilarity(query, memory)
         IN IF similarity >= similarity_threshold
            THEN RecallScan(Tail(memories), query, similarity_threshold,
                    Append(scored, <<(<<similarity, 10>>), memory>>),
                    MapPut(counts, memory.id, MapGet(counts, memory.id, 0) + 1),
                    MapPut(last, memory.id, now), now)
            ELSE RecallScan(Tail(memories), query, similarity_threshold,
                    scored, counts, last, now)

\* scored_memories[:k], for k >= 0.
TopK(scored, k) ==
    LET n == IF k < Len(scored) THEN k ELSE Len(scored)
    IN [i \in 1..n |-> scored[i][2]]

\* The record of a Memory call that neither recalls nor evicts.
MemoryPlainCall(op, stores, recalls) ==
    [op |-> op, stores |-> stores, recalls |-> recalls, ret |-> <<>>,
     query |-> NoValue, k |-> 0, similarity_threshold |-> 0,
     cleared |-> NoValue,
     evicted |-> FALSE, victim |-> NoItem,
     before |-> [episodic |-> <<>>, counts |-> EmptyMap, time |-> 0]]

MemoryInit ==
    /\ memory_type \in MemoryTypes
    /\ capacity \in (IF memory_type = "episodic" THEN 0..MaxCapacity
                     ELSE {DefaultCapacity})
    /\ working_memory = <<>>
    /\ episodic_memory = <<>>
    /\ semantic_memory = <<>>
    /\ access_counts = EmptyMap
    /\ last_access = EmptyMap
    /\ priorities = EmptyMap
    /\ clock = 0
    /\ memory_call = MemoryPlainCall("init", 0, 0)

PrioritiesWithoutVictim(prios, forgot) ==
    IF forgot.evicted
    THEN [id \in DOMAIN prios \ {forgot.victim.id} |-> prios[id]]
    ELSE prios

\* _forget_least_important removes the victim from episodic_memory and
\* touches no table.
PrioritiesAfterForget(prios, forgot) == prios

\* store(item, priority), called when the clock reads clock + elapsed.
store(payload, priority, elapsed) ==
    /\ memory_call.stores < MaxStores
    /\ clock + elapsed <= MaxTime
    /\ LET timestamp == clock + elapsed
           item == MakeItem(payload, priority, timestamp)
           forgot ==
               IF memory_type = "episodic" /\ Len(episodic_memory) >= capacity
               THEN ForgetLeastImportant(episodic_memory, priorities,
                                         access_counts, timestamp)
               ELSE [memory |-> episodic_memory, evicted |-> FALSE,
                     victim |-> NoItem]
       IN /\ clock' = timestamp
          /\ working_memory' =
                IF memory_type = "working"
                THEN DequeAppend(working_memory, item, WorkingMaxLen)
                ELSE working_memory
          /\ episodic_memory' =
                IF memory_type = "episodic"
                THEN DequeAppend(forgot.memory, item, capacity)
                ELSE episodic_memory
          /\ priorities' =
                IF memory_type = "episodic"
                THEN MapPut(PrioritiesAfterForget(priorities, forgot), item.id,
                            priority)
                ELSE priorities
          /\ semantic_memory' =
                IF memory_type = "semantic"
                THEN SemanticPut(semantic_memory, SemanticKey(item), item)
                ELSE semantic_memory
          /\ memory_call' =
                [MemoryPlainCall("store", memory_call.stores + 1, memory_call.recalls) EXCEPT
                    !.ret = <<item>>,
                    !.evicted = forgot.evicted,
                    !.victim = forgot.victim,
                    !.before = IF forgot.evicted
                               THEN [episodic |-> episodic_memory,
                                     counts |-> access_counts,
                                     time |-> timestamp]
                               ELSE @]
    /\ UNCHANGED <<capacity, memory_type, access_counts, last_access>>
    /\ MemoryOnly

\* recall(query, k, similarity_threshold), called while the clock still
\* reads what it read in the call before.
recall(query, k, similarity_threshold) ==
    /\ memory_call.recalls < MaxRecalls
    /\ LET memories ==
               IF memory_type = "episodic" THEN episodic_memory
               ELSE IF memory_type = "working" THEN working_memory
               ELSE [i \in 1..Len(semantic_memory) |-> semantic_memory[i].item]
           scan == RecallScan(memories, query, similarity_threshold, <<>>,
                              access_counts, last_access, clock)
           recalled == TopK(SortByKey(scan.scored, TRUE), k)
       IN /\ access_counts' = scan.counts
          /\ last_access' = scan.last
          /\ memory_call' =
                [MemoryPlainCall("recall", memory_call.stores, memory_call.recalls + 1) EXCEPT
                    !.ret = recalled, !.query = query, !.k = k,
                    !.similarity_threshold = similarity_threshold]
    /\ UNCHANGED <<capacity, memory_type, working_memory, episodic_memory,
                   semantic_memory, priorities, clock>>
    /\ MemoryOnly

\* consolidate() is a placeholder that changes nothing.
consolidate ==
    /\ memory_call' = MemoryPlainCall("consolidate", memory_call.stores, memory_call.recalls)
    /\ UNCHANGED <<capacity, memory_type, working_memory, episodic_memory,
                   semantic_memory, access_counts, last_access, priorities,
                   clock>>
    /\ MemoryOnly

ClearSelectsNamed(t, which) == t = which

\* if memory_type == which or memory_type is None
ClearSelects(t, which) == t = which \/ t = NoValue

\* clear(memory_type=t)
memory_clear(t) ==
    /\ working_memory' =
          IF ClearSelects(t, "working") THEN <<>> ELSE working_memory
    /\ episodic_memory' =
          IF ClearSelects(t, "episodic") THEN <<>> ELSE episodic_memory
    /\ priorities' =
          IF ClearSelects(t, "episodic") THEN EmptyMap ELSE priorities
    /\ semantic_memory' =
          IF ClearSelects(t, "semantic") THEN <<>> ELSE semantic_memory
    /\ access_counts' = EmptyMap
    /\ last_access' = EmptyMap
    /\ memory_call' =
          [MemoryPlainCall("clear", memory_call.stores, memory_call.recalls)
              EXCEPT !.cleared = IF t = NoValue THEN "all" ELSE t]
    /\ UNCHANGED <<capacity, memory_type, clock>>
    /\ MemoryOnly

MemoryNext ==
    \/ \E p \in 1..Len(PayloadInputs), priority \in PriorityInputs,
          elapsed \in {0, 1} : store(PayloadInputs[p], priority, elapsed)
    \/ \E query \in QueryInputs, k \in 0..MaxK,
          similarity_threshold \in ThresholdInputs :
             recall(query, k, similarity_threshold)
    \/ consolidate
    \/ \E t \in ClearInputs : memory_clear(t)

(***************************************************************************)
(*                           Specifications                                *)
(***************************************************************************)
\* The engine is built with its defaults where the planner is studied.
EngineIdle ==
    /\ method = "forward_chaining" /\ engine_max_depth = DefaultMaxDepth
    /\ facts = {} /\ rules = <<>> /\ confidences = EmptyMap
    /\ inference_chain = <<>> /\ derived_facts = {}
    /\ engine_call = PlainCall("init")

\* The planner is built with its defaults where the engine is studied.
PlannerIdle ==
    /\ algorithm = "a_star" /\ planner_max_depth = DefaultPlannerDepth
    /\ actions = <<>> /\ heuristic = NoValue /\ nodes_explored = 0
    /\ plan_length = 0 /\ plan_cost = 0
    /\ planner_call = PlannerPlainCall("init")

\* The memory is built with its defaults where another object is studied.
MemoryIdle ==
    /\ memory_type = "episodic" /\ capacity = DefaultCapacity
    /\ working_memory = <<>> /\ episodic_memory = <<>>
    /\ semantic_memory = <<>> /\ access_counts = EmptyMap
    /\ last_access = EmptyMap /\ priorities = EmptyMap
    /\ clock = 0 /\ memory_call = MemoryPlainCall("init", 0, 0)

ReasoningInit == EngineInit /\ PlannerIdle /\ MemoryIdle

SpecReasoning == ReasoningInit /\ [][EngineNext]_vars

PlanningInit == PlannerInit /\ EngineIdle /\ MemoryIdle

SpecPlanner == PlanningInit /\ [][PlannerNext]_vars

RememberingInit == MemoryInit /\ EngineIdle /\ PlannerIdle

SpecMemory == RememberingInit /\ [][MemoryNext]_vars

(***************************************************************************)
(*                    Properties of the ReasoningEngine                    *)
(***************************************************************************)

\* Every rule of the list was added by add_rule.
OnlyAddRule == \A i \in 1..Len(rules) : rules[i].type # "custom"

\* The latest call was infer() under forward chaining.
ForwardInfer == engine_call.op = "infer" /\ method = "forward_chaining"

\* The latest two calls were infer(), the first of which returned.
SecondInfer == ForwardInfer /\ engine_call.after_infer

\* C1 as stated: with rules from add_rule, for every max_depth, the second of
\* two successive infer() calls returns an empty list.
C1_SecondInferEmpty ==
    (SecondInfer /\ OnlyAddRule)
        => (~engine_call.raised /\ engine_call.ret = {})

\* C1 amended: with rules from add_rule, the second of two successive infer()
\* calls returns, and it returns an empty list exactly when max_depth is 0 or
\* the first call left the facts closed under the rules; a first call cut
\* short by max_depth is continued by the second.
C1_SecondInferEmptyAtFixedPoint ==
    (SecondInfer /\ OnlyAddRule)
        => /\ ~engine_call.raised
           /\ engine_call.ret = {}
                <=> (engine_max_depth = 0 \/ engine_call.pre_closed)

\* A second infer() that found a fired rule's conclusion in place and
\* returned nothing.
C1_Witness ==
    /\ SecondInfer /\ OnlyAddRule
    /\ engine_max_depth >= 1
    /\ engine_call.ret = {}
    /\ \E i \in 1..Len(rules) :
          /\ Len(rules[i].premises) >= 1
          /\ AllSatisfied(rules[i].premises, facts)
          /\ rules[i].conclusion \in facts

\* The minimum of a non-empty list of confidences.
LeastOf(s) ==
    CHOOSE m \in {s[i] : i \in 1..Len(s)} :
        \A i \in 1..Len(s) : FracLeq(m, s[i])

\* C8: every fact a rule derives in infer() is stored with the rule's
\* confidence times the least confidence of the rule's premises, so the stored
\* confidence exceeds neither that product nor any premise's share of it.
C8_DerivedConfidence ==
    ForwardInfer =>
        /\ Len(engine_call.firings) = Len(inference_chain)
        /\ \A i \in 1..Len(engine_call.firings) :
             LET f     == engine_call.firings[i]
                 step  == inference_chain[i]
                 held  == [j \in 1..Len(step.premises) |->
                              confidences[step.premises[j]]]
                 bound == FracMul(f.rule_confidence, LeastOf(held))
             IN /\ f.premise_confidences = held
                /\ f.stored = bound
                /\ step.confidence = bound
                /\ step.conclusion = f.conclusion
                /\ confidences[f.conclusion] = bound
                /\ \A j \in 1..Len(held) :
                      FracLeq(f.stored, FracMul(f.rule_confidence, held[j]))

\* A rule with two premises of different confidence and a confidence below 1
\* has fired.
C8_Witness ==
    /\ ForwardInfer
    /\ \E i \in 1..Len(engine_call.firings) :
          LET f == engine_call.firings[i]
          IN /\ Len(f.premise_confidences) = 2
             /\ f.premise_confidences[1] # f.premise_confidences[2]
             /\ f.rule_confidence = Half
             /\ f.stored = <<1, 4>>

\* C9 as stated: the list infer() returns under forward chaining is exactly
\* the facts that are in the store after the call and were not before, each
\* with a confidence entry.
C9_ReturnsExactlyNewFacts ==
    (ForwardInfer /\ ~engine_call.raised)
        => /\ engine_call.ret = facts \ engine_call.pre_facts
           /\ engine_call.ret \subseteq DOMAIN confidences

\* C9 amended: the same, when every rule was added by add_rule (a fact that a
\* custom rule's action adds during infer() is stored but not returned).
C9_ReturnsExactlyNewFactsOfRules ==
    (ForwardInfer /\ ~engine_call.raised /\ OnlyAddRule)
        => /\ engine_call.ret = facts \ engine_call.pre_facts
           /\ engine_call.ret \subseteq DOMAIN confidences
           /\ engine_call.ret = derived_facts

\* infer() has added a fact to a store that already held one.
C9_Witness ==
    /\ ForwardInfer /\ ~engine_call.raised /\ OnlyAddRule
    /\ engine_call.ret # {}
    /\ engine_call.pre_facts # {}
    /\ engine_call.ret \subseteq facts


\* C16 as stated: explain(fact) returns the steps that conclude the fact for
\* every fact that a rule has concluded in the latest or an earlier infer()
\* since the last clear, and the "not a derived fact" message only for other
\* facts.
C16_ExplainsEveryDerivedFact ==
    engine_call.op = "explain"
        => /\ engine_call.fact \in engine_call.produced
                => /\ engine_call.explanation.derived
                   /\ engine_call.explanation.steps # <<>>
                   /\ \A i \in 1..Len(engine_call.explanation.steps) :
                         engine_call.explanation.steps[i].conclusion
                            = engine_call.fact
           /\ ~engine_call.explanation.derived
                => engine_call.fact \notin engine_call.produced

\* C17: under a method name that is none of the three known ones, infer()
\* returns an empty list without raising and leaves the facts, the rules, the
\* confidences and the inference trace as they were.
C17_UnknownMethodIsNoOp ==
    [][(engine_call'.op = "infer"
          /\ method \notin {"forward_chaining", "backward_chaining",
                            "probabilistic"})
         => /\ ~engine_call'.raised
            /\ engine_call'.ret = {}
            /\ facts' = facts
            /\ rules' = rules
            /\ confidences' = confidences
            /\ inference_chain' = inference_chain]_vars

\* infer() was called under an unknown method name while a rule had its
\* premises present and its conclusion absent.
C17_Witness ==
    /\ engine_call.op = "infer"
    /\ method \notin {"forward_chaining", "backward_chaining", "probabilistic"}
    /\ OnlyAddRule
    /\ ~Closed(facts, rules)
    /\ \E i \in 1..Len(rules) : Len(rules[i].premises) > 0

\* The depths at which the latest infer() recorded a step.
StepDepths == {inference_chain[i].depth : i \in 1..Len(inference_chain)}

\* C20: with rules from add_rule only, infer() under forward chaining makes
\* at most max_depth passes, every pass before the last adds a fact, a last
\* pass short of max_depth adds none, and every recorded step has a depth
\* from 1 to max_depth.
C20_ChainingIsBounded ==
    (ForwardInfer /\ OnlyAddRule)
        => /\ engine_call.passes <= engine_max_depth
           /\ engine_max_depth >= 1 => engine_call.passes >= 1
           /\ StepDepths \subseteq 1..engine_max_depth
           /\ StepDepths \subseteq 1..engine_call.passes
           /\ ~engine_call.raised
                => /\ \A d \in 1..(engine_call.passes - 1) : d \in StepDepths
                   /\ engine_call.passes < engine_max_depth
                        => engine_call.passes \notin StepDepths

\* infer() made max_depth = 2 passes, each of which added a fact.
C20_Witness ==
    /\ ForwardInfer /\ OnlyAddRule /\ ~engine_call.raised
    /\ engine_max_depth = 2 /\ engine_call.passes = 2
    /\ StepDepths = {1, 2}

\* The calls C21 ranges over.
KeepingCalls == {"add_fact", "add_rule", "infer", "query", "explain"}

\* C21: with rules from add_rule only, no add_fact, add_rule, infer, query or
\* explain call takes a fact out of the fact set, and the confidence of a
\* fact that is present changes only in an add_fact call on that fact (so
\* infer() never overwrites it); whatever the rules, a call that takes a fact
\* out is clear().
C21_FactsAndConfidencesKept ==
    [][ /\ (OnlyAddRule /\ engine_call'.op \in KeepingCalls)
            => /\ facts \subseteq facts'
               /\ \A f \in facts :
                    (f \in DOMAIN confidences /\ confidences'[f] # confidences[f])
                        => (engine_call'.op = "add_fact" /\ engine_call'.fact = f)
        /\ ~(facts \subseteq facts') => engine_call'.op = "clear"
      ]_vars

\* An infer() has run, with rules from add_rule only, on a fact set that held
\* the premises of a rule and its conclusion, the conclusion at a confidence
\* other than the one the rule computes: the confidence is still that one.
C21_Witness ==
    /\ ForwardInfer /\ OnlyAddRule /\ ~engine_call.raised
    /\ engine_call.passes >= 1
    /\ \E i \in 1..Len(rules) :
          /\ Len(rules[i].premises) > 0
          /\ AllSatisfied(rules[i].premises, engine_call.pre_facts)
          /\ rules[i].conclusion \in engine_call.pre_facts
          /\ confidences[rules[i].conclusion] #
                ConclusionConfidence(
                    PremiseConfidences(rules[i].premises, confidences),
                    rules[i].confidence)

\* C22: add_fact(s, p, c) leaves the fact set with the fact added to it and
\* nothing else changed, the confidence of the fact equal to c, every other
\* confidence and the rule list as they were; on a state that add_fact(s, p, c)
\* has just produced it changes nothing.
C22_AddFactIsUpsert ==
    [][ engine_call'.op = "add_fact"
          => LET f == engine_call'.fact
                 c == engine_call'.confidence
             IN /\ facts' = facts \cup {f}
                /\ DOMAIN confidences' = DOMAIN confidences \cup {f}
                /\ confidences'[f] = c
                /\ \A g \in DOMAIN confidences \ {f} :
                        confidences'[g] = confidences[g]
                /\ rules' = rules
                /\ (engine_call.op = "add_fact" /\ engine_call.fact = f
                        /\ engine_call.confidence = c)
                      => (facts' = facts /\ confidences' = confidences)
      ]_vars

\* add_fact has been called on a fact that a rule had concluded at confidence
\* 1/2, with another fact present: the fact now has the confidence passed.
C22_Witness ==
    /\ engine_call.op = "add_fact"
    /\ engine_call.fact = FactB
    /\ FactB \in engine_call.produced
    /\ engine_call.confidence = One
    /\ confidences[FactB] = One
    /\ FactA \in facts /\ confidences[FactA] = Half
    /\ Len(rules) >= 1

\* C25: with rules from add_rule only, one of them with an empty premise
\* list, infer() under forward chaining returns without raising, and a
\* conclusion it adds by such a rule has the rule's confidence.
C25_EmptyPremisesRuleConcludes ==
    (ForwardInfer /\ OnlyAddRule
        /\ \E i \in 1..Len(rules) : Len(rules[i].premises) = 0)
        => /\ ~engine_call.raised
           /\ \A i \in 1..Len(engine_call.firings) :
                 engine_call.firings[i].premise_confidences = <<>>
                    => engine_call.firings[i].stored
                          = engine_call.firings[i].rule_confidence

\* The places in the rule list of the custom rules whose condition holds on
\* every pass.
AlwaysRules ==
    {i \in 1..Len(rules) : rules[i].type = "custom" /\ rules[i].condition.kind = "always"}

\* The number of custom rules of the list with the name.
RulesNamed(name) ==
    Cardinality({i \in 1..Len(rules) : rules[i].type = "custom" /\ rules[i].name = name})

\* C29: when the rule list holds a custom rule whose condition holds on every
\* pass, infer() under forward chaining makes exactly max_depth passes and
\* runs the action of that rule once in every pass.
C29_AlwaysRuleRunsEveryPass ==
    (ForwardInfer /\ AlwaysRules # {})
        => /\ ~engine_call.raised
           /\ engine_call.passes = engine_max_depth
           /\ \A i \in AlwaysRules :
                 MapGet(engine_call.runs, rules[i].name, 0)
                    = engine_call.passes * RulesNamed(rules[i].name)

(***************************************************************************)
(*                        Properties of the Planner                        *)
(***************************************************************************)

\* The latest call was a search (create_plan) that came back.
PlanReturned == planner_call.op = "create_plan" /\ ~planner_call.raised

\* The states a plan can pass through: what the actions reach from the
\* initial state of the latest call.
RECURSIVE ReachableFrom(_, _)
ReachableFrom(S, acts) ==
    LET more == S \cup { ApplyEffect(acts[i].effects, s) :
                           <<i, s>> \in { x \in (1..Len(acts)) \X S :
                               EvalPrecondition(acts[x[1]].preconditions, x[2]) } }
    IN IF more = S THEN S ELSE ReachableFrom(more, acts)

\* -1 stands for "no plan".
LeastOption(S) ==
    LET finite == S \ {-1}
    IN IF finite = {} THEN -1
       ELSE CHOOSE m \in finite : \A x \in finite : m <= x

PlusOption(c, d) == IF d = -1 THEN -1 ELSE c + d

\* The least total of weight[i] over the action sequences that lead from each
\* state of U to a goal state (Bellman-Ford, n rounds).
RECURSIVE LeastToGoal(_, _, _, _, _, _)
LeastToGoal(dist, n, U, acts, weight, goal) ==
    IF n = 0 THEN dist
    ELSE LeastToGoal(
            [s \in U |->
                LeastOption({dist[s]} \cup
                    { PlusOption(weight[i], dist[ApplyEffect(acts[i].effects, s)]) :
                        i \in { j \in 1..Len(acts) :
                                  EvalPrecondition(acts[j].preconditions, s) } })],
            n - 1, U, acts, weight, goal)

ToGoal(U, acts, weight, goal) ==
    LeastToGoal([s \in U |-> IF IsGoal(s, goal) THEN 0 ELSE -1],
                Cardinality(U), U, acts, weight, goal)

\* The least cost of a plan from each state reachable in the latest call.
CostToGoal ==
    ToGoal(ReachableFrom({planner_call.initial}, actions), actions,
           [i \in 1..Len(actions) |-> actions[i].cost], planner_call.goal)

\* The least number of actions of a plan, likewise.
StepsToGoal ==
    ToGoal(ReachableFrom({planner_call.initial}, actions), actions,
           [i \in 1..Len(actions) |-> 1], planner_call.goal)

\* The heuristic in use never overstates the remaining cost.
AdmissibleHeuristic ==
    LET togo == CostToGoal
    IN \A s \in DOMAIN togo :
          togo[s] # -1 =>
            (IF heuristic = NoValue THEN 0
             ELSE EvalHeuristic(heuristic, s, planner_call.goal)) <= togo[s]

\* The registered action a plan step names.
ActionNamed(n) ==
    actions[CHOOSE i \in 1..Len(actions) : actions[i].name = n]

\* The state a plan leads to from s, or "stuck" where a step names no action
\* or an action whose precondition does not hold.
RECURSIVE RunPlan(_, _)
RunPlan(s, plan) ==
    IF plan = <<>> THEN [ok |-> TRUE, state |-> s]
    ELSE IF /\ \E i \in 1..Len(actions) : actions[i].name = Head(plan)
            /\ EvalPrecondition(ActionNamed(Head(plan)).preconditions, s)
    THEN RunPlan(ApplyEffect(ActionNamed(Head(plan)).effects, s), Tail(plan))
    ELSE [ok |-> FALSE, state |-> s]

RECURSIVE PlanCost(_)
PlanCost(plan) ==
    IF plan = <<>> THEN 0 ELSE ActionNamed(Head(plan)).cost + PlanCost(Tail(plan))

\* The least cost of a plan of at most n actions from the initial state of
\* the latest call (-1: there is none).
CostWithin(n) ==
    LET U == ReachableFrom({planner_call.initial}, actions)
    IN LeastToGoal([s \in U |-> IF IsGoal(s, planner_call.goal) THEN 0 ELSE -1],
                   n, U, actions,
                   [i \in 1..Len(actions) |-> actions[i].cost],
                   planner_call.goal)[planner_call.initial]

\* C2 as stated: with 'a_star' and an admissible heuristic, a plan that
\* create_plan returns costs the least that any plan within the node budget
\* costs (a plan of n actions takes n + 1 entries from the frontier, so the
\* plans of fewer than max_depth actions).
C2_AStarPlanIsCheapest ==
    (PlanReturned /\ algorithm = "a_star" /\ planner_call.found
        /\ AdmissibleHeuristic)
        => /\ plan_cost = CostWithin(planner_max_depth - 1)
           /\ PlanCost(planner_call.ret) = plan_cost

C4_BfsFewestActions ==
    (PlanReturned /\ algorithm = "bfs" /\ planner_call.found)
        => Len(planner_call.ret) = StepsToGoal[planner_call.initial]

\* Breadth-first search has returned a two-step plan where a cheaper plan of
\* more steps exists.
C4_Witness ==
    /\ PlanReturned /\ algorithm = "bfs" /\ planner_call.found
    /\ Len(planner_call.ret) = 2
    /\ CostToGoal[planner_call.initial] < plan_cost

\* C10: create_plan takes at most max_depth entries from its frontier, and
\* when it has taken no goal state from it, it returns the empty sequence and
\* does not raise.
C10_BudgetThenEmptyPlan ==
    planner_call.op = "create_plan"
        => /\ nodes_explored <= planner_max_depth
           /\ ~planner_call.found
                => (~planner_call.raised /\ planner_call.ret = <<>>)

\* The latest call was a search, whether it came back or raised.
SearchCall == planner_call.op \in {"create_plan", "replan"}

\* C11: within one search no two entries that were expanded have the same
\* key, and an entry whose key a goal-tested entry before it had is skipped,
\* neither goal-tested nor expanded.
C11_NoStateExpandedTwice ==
    SearchCall
        => LET trace == planner_call.trace
           IN \A i \in 1..Len(trace), j \in 1..Len(trace) :
                 (i < j /\ trace[i].key = trace[j].key)
                    => /\ ~(trace[i].kind = "expanded" /\ trace[j].kind = "expanded")
                       /\ trace[i].kind \in {"goal", "expanded"}
                            => trace[j].kind = "skipped"

\* A search took from its frontier an entry for a state it had expanded
\* before, and skipped it.
C11_Witness ==
    /\ SearchCall /\ ~planner_call.raised
    /\ \E i \in 1..Len(planner_call.trace), j \in 1..Len(planner_call.trace) :
          /\ i < j
          /\ planner_call.trace[i].key = planner_call.trace[j].key
          /\ planner_call.trace[i].kind = "expanded"
          /\ planner_call.trace[j].kind = "skipped"

\* A state satisfies a goal as the specification states it: every key of the
\* goal is present in the state with an equal value.
StatedGoal(state, goal) ==
    \A k \in DOMAIN goal : k \in DOMAIN state /\ state[k] = goal[k]

\* C12 as stated: the searches accept a state exactly when every key of the
\* goal is present in it with an equal value, so a state that lacks a goal key
\* is never accepted.
C12_GoalNeedsEveryKey ==
    SearchCall
        => \A i \in 1..Len(planner_call.trace) :
              /\ planner_call.trace[i].kind = "goal"
                    => StatedGoal(planner_call.trace[i].state, planner_call.goal)
              /\ planner_call.trace[i].kind = "expanded"
                    => ~StatedGoal(planner_call.trace[i].state, planner_call.goal)

\* C19: replan(current_state, goal, failed_action) returns the plan, and
\* leaves the statistics and the action set, that create_plan(current_state,
\* goal) computes from the same planner, whatever failed_action is.
C19_ReplanIsCreatePlan ==
    [][planner_call'.op = "replan"
         => LET r == RunSearch(algorithm, planner_call'.initial,
                               planner_call'.goal, actions, heuristic,
                               planner_max_depth)
            IN /\ planner_call'.ret = r.plan
               /\ planner_call'.raised = r.raised
               /\ nodes_explored' = r.nodes_explored
               /\ plan_cost' = r.plan_cost
               /\ plan_length' = (IF r.raised THEN 0 ELSE Len(r.plan))
               /\ actions' = actions]_vars

\* replan was told that an action failed and returned a plan that uses it.
C19_Witness ==
    /\ planner_call.op = "replan" /\ ~planner_call.raised
    /\ planner_call.failed_action # NoValue
    /\ \E i \in 1..Len(planner_call.ret) :
          planner_call.ret[i] = planner_call.failed_action

\* The entries of the latest search's trace that were goal-tested.
GoalTested ==
    {i \in 1..Len(planner_call.trace) :
        planner_call.trace[i].kind \in {"goal", "expanded"}}

\* C23: under 'a_star' with no heuristic set (action costs are never
\* negative), the entries that a search goal-tests come off the frontier in
\* non-decreasing accumulated cost, and a plan that the search finds costs
\* the least of all plans from the initial state to a goal state.
C23_UniformCostWithoutHeuristic ==
    (SearchCall /\ algorithm = "a_star" /\ heuristic = NoValue)
        => /\ \A i \in GoalTested, j \in GoalTested :
                 i < j => planner_call.trace[i].cost <= planner_call.trace[j].cost
           /\ (planner_call.found /\ ~planner_call.raised)
                => /\ plan_cost = CostToGoal[planner_call.initial]
                   /\ PlanCost(planner_call.ret) = plan_cost

\* A* without heuristic has returned the three-step plan of cost 7 after
\* taking the costlier entry for X from the frontier, too.
C23_Witness ==
    /\ SearchCall /\ algorithm = "a_star" /\ heuristic = NoValue
    /\ planner_call.found /\ ~planner_call.raised
    /\ planner_call.ret = <<"sa", "ax", "xg">>
    /\ plan_cost = 7
    /\ \E i \in 1..Len(planner_call.trace) : planner_call.trace[i].kind = "skipped"

\* C24: a create_plan call under the informed search (or its 'strips'
\* fallback) does not fail: it hands back a sequence, also when entries of
\* the frontier have equal f.
C24_EqualScoresAreKept ==
    (planner_call.op = "create_plan" /\ algorithm \in {"a_star", "strips"})
        => ~planner_call.raised

C27_StatsOfLatestCall ==
    PlanReturned
        => /\ planner_call.ret # <<>>
                => (plan_cost = PlanCost(planner_call.ret)
                    /\ plan_length = Len(planner_call.ret))
           /\ planner_call.ret = <<>> => (plan_cost = 0 /\ plan_length = 0)

\* create_plan found no plan, on a planner whose statistics were those of an
\* earlier plan.
C27_Witness ==
    /\ PlanReturned /\ ~planner_call.found
    /\ planner_call.ret = <<>>
    /\ planner_call.before.plan_cost > 0
    /\ planner_call.before.plan_length > 0
    /\ plan_cost = 0 /\ plan_length = 0

\* The search strategies (an unknown algorithm name runs no search).
Strategies == {"a_star", "bfs", "dfs", "strips"}

\* C28: when the initial state satisfies the goal, a search under any of the
\* four strategies returns the empty sequence, as a search that finds no plan
\* does; with max_depth >= 1 it takes one entry from the frontier and
\* goal-tests it (nodes_explored = 1, plan_cost = 0), with max_depth = 0 it
\* takes none and tests nothing.
C28_GoalAtStart ==
    (SearchCall /\ algorithm \in Strategies
        /\ IsGoal(planner_call.initial, planner_call.goal))
        => /\ planner_call.ret = <<>>
           /\ ~planner_call.raised
           /\ planner_max_depth >= 1
                => /\ nodes_explored = 1
                   /\ plan_cost = 0
                   /\ Len(planner_call.trace) = 1
                   /\ planner_call.trace[1].kind = "goal"
           /\ planner_max_depth = 0
                => /\ nodes_explored = 0
                   /\ planner_call.trace = <<>>
                   /\ ~planner_call.found

\* A depth-first search was started in the state X with the goal X and
\* actions to choose from, and stopped at its first entry.
C28_Witness ==
    /\ SearchCall /\ algorithm = "dfs"
    /\ planner_call.initial = AtState("X")
    /\ planner_call.goal = AtState("X")
    /\ planner_max_depth >= 1
    /\ Len(actions) >= 2
    /\ planner_call.found /\ planner_call.ret = <<>>
    /\ nodes_explored = 1

(***************************************************************************)
(*                        Properties of the Memory                         *)
(***************************************************************************)

\* C5: in episodic mode the episodic buffer never holds more than capacity
\* items, whatever store, recall, consolidate and clear calls were made.
C5_EpisodicWithinCapacity ==
    memory_type = "episodic" => Len(episodic_memory) <= capacity

\* A store on a full episodic buffer of capacity 1 or more has just evicted.
C5_Witness ==
    /\ memory_type = "episodic" /\ capacity >= 1
    /\ memory_call.op = "store" /\ memory_call.evicted
    /\ Len(episodic_memory) = capacity

\* The importance score as the specification states it, at the eviction of
\* the latest call: the item's own priority, the access count the table held
\* for it, and its age by its own timestamp.
StatedImportance(item) ==
    <<item.priority * (1 + MapGet(memory_call.before.counts, item.id, 0)),
      1 + (memory_call.before.time - item.timestamp)>>

\* C6: when store evicts from a full episodic buffer, the item it removes was
\* in the buffer and no item of the buffer had a smaller importance score
\* priority * (1 + access_count) / (1 + age in hours) at that moment.
C6_EvictsLeastImportant ==
    (memory_call.op = "store" /\ memory_call.evicted)
        => LET buffer == memory_call.before.episodic
           IN /\ \E i \in 1..Len(buffer) : buffer[i] = memory_call.victim
              /\ \A i \in 1..Len(buffer) :
                    ~ScoreLess(StatedImportance(buffer[i]),
                               StatedImportance(memory_call.victim))

\* An eviction took the second of two items, not the oldest, because the
\* first had been recalled and so scored higher at equal priority.
C6_Witness ==
    /\ memory_call.op = "store" /\ memory_call.evicted
    /\ Len(memory_call.before.episodic) = 2
    /\ memory_call.victim = memory_call.before.episodic[2]
    /\ memory_call.victim # memory_call.before.episodic[1]
    /\ memory_call.before.episodic[1].priority = memory_call.victim.priority
    /\ MapGet(memory_call.before.counts,
              memory_call.before.episodic[1].id, 0) > 0
    /\ ScoreLess(StatedImportance(memory_call.victim),
                 StatedImportance(memory_call.before.episodic[1]))

\* The items recall reads in the current mode.
StoredItems ==
    IF memory_type = "episodic" THEN episodic_memory
    ELSE IF memory_type = "working" THEN working_memory
    ELSE [i \in 1..Len(semantic_memory) |-> semantic_memory[i].item]

\* How often x occurs in the sequence q.
Occurrences(q, x) == Cardinality({i \in 1..Len(q) : q[i] = x})

\* C7: recall returns at most k items, each scoring at least
\* similarity_threshold, in non-increasing order of score, and no stored item
\* that it leaves out scores higher than one it returns.
C7_RecallTopK ==
    memory_call.op = "recall"
        => LET ret == memory_call.ret
               score(m) == CalculateSimilarity(memory_call.query, m)
           IN /\ Len(ret) <= memory_call.k
              /\ \A i \in 1..Len(ret) :
                    /\ score(ret[i]) >= memory_call.similarity_threshold
                    /\ Occurrences(ret, ret[i]) <= Occurrences(StoredItems, ret[i])
              /\ \A i \in 1..Len(ret), j \in 1..Len(ret) :
                    i < j => score(ret[i]) >= score(ret[j])
              /\ \A n \in 1..Len(StoredItems) :
                    Occurrences(ret, StoredItems[n]) <
                        Occurrences(StoredItems, StoredItems[n])
                    => \A i \in 1..Len(ret) :
                          score(StoredItems[n]) <= score(ret[i])

\* recall with k = 1 returned the higher-scoring of two stored items, which
\* was stored second, and left the first out.
C7_Witness ==
    /\ memory_call.op = "recall" /\ memory_call.k = 1
    /\ Len(StoredItems) = 2 /\ Len(memory_call.ret) = 1
    /\ memory_call.ret[1] = StoredItems[2]
    /\ CalculateSimilarity(memory_call.query, StoredItems[1])
         < CalculateSimilarity(memory_call.query, StoredItems[2])
    /\ CalculateSimilarity(memory_call.query, StoredItems[1])
         >= memory_call.similarity_threshold

\* C13 as stated: recall adds exactly one to the access count of every stored
\* item that scores at least similarity_threshold, whether it is returned or
\* not, leaves the access count of every other stored item as it was, and
\* leaves the stores as they were.
C13_RecallCountsEachItemOnce ==
    [][memory_call'.op = "recall"
         => /\ \A i \in 1..Len(StoredItems) :
                  LET m == StoredItems[i]
                      old == MapGet(access_counts, m.id, 0)
                      new == MapGet(access_counts', m.id, 0)
                  IN IF CalculateSimilarity(memory_call'.query, m)
                          >= memory_call'.similarity_threshold
                     THEN new = old + 1
                     ELSE new = old
            /\ working_memory' = working_memory
            /\ episodic_memory' = episodic_memory
            /\ semantic_memory' = semantic_memory]_vars

\* The sequence q without its i-th element.
WithoutIndex(q, i) == SubSeq(q, 1, i - 1) \o SubSeq(q, i + 1, Len(q))

\* C14: in episodic mode with capacity 1 or more, store(x) on a full buffer
\* removes exactly one of the items that were there and appends x, keeping the
\* others in their order; on a buffer that is not full it only appends x.
C14_StoreEvictsOneThenAppends ==
    [][(memory_call'.op = "store" /\ memory_type = "episodic" /\ capacity >= 1)
         => LET x == memory_call'.ret[1]
            IN IF Len(episodic_memory) >= capacity
               THEN \E i \in 1..Len(episodic_memory) :
                       episodic_memory' =
                           Append(WithoutIndex(episodic_memory, i), x)
               ELSE episodic_memory' = Append(episodic_memory, x)]_vars

\* A store on a full buffer of two took the second item, so that the first
\* item and the new one are what the buffer holds, in that order.
C14_Witness ==
    /\ memory_call.op = "store" /\ memory_call.evicted
    /\ memory_type = "episodic" /\ capacity = 2
    /\ Len(memory_call.before.episodic) = 2
    /\ memory_call.before.episodic[1] # memory_call.before.episodic[2]
    /\ memory_call.victim = memory_call.before.episodic[2]
    /\ episodic_memory = <<memory_call.before.episodic[1], memory_call.ret[1]>>

\* C15: when an eviction finds in the buffer one item of priority 0 and all
\* the other items of positive priority, the item of priority 0 is the one it
\* removes.
C15_ZeroPriorityGoesFirst ==
    (memory_call.op = "store" /\ memory_call.evicted)
        => LET buffer == memory_call.before.episodic
           IN \A i \in 1..Len(buffer) :
                 (/\ buffer[i].priority = 0
                  /\ \A j \in 1..Len(buffer) : j # i => buffer[j].priority > 0)
                    => memory_call.victim = buffer[i]

\* An eviction took an item of priority 0 that was the newer of two and had
\* been recalled, while the older one, of positive priority, had not.
C15_Witness ==
    /\ memory_call.op = "store" /\ memory_call.evicted
    /\ Len(memory_call.before.episodic) = 2
    /\ memory_call.before.episodic[2].priority = 0
    /\ memory_call.before.episodic[1].priority > 0
    /\ memory_call.victim = memory_call.before.episodic[2]
    /\ MapGet(memory_call.before.counts, memory_call.before.episodic[2].id, 0) > 0
    /\ MapGet(memory_call.before.counts, memory_call.before.episodic[1].id, 0) = 0
    /\ memory_call.before.episodic[1].timestamp
         < memory_call.before.episodic[2].timestamp

\* C18: clear(t) for a named store empties that store and leaves the other
\* two as they were, clear(None) empties all three, and every clear empties
\* the access-count and last-access tables.
C18_ClearByType ==
    [][memory_call'.op = "clear"
         => LET t == memory_call'.cleared
            IN /\ working_memory' =
                    (IF t \in {"working", "all"} THEN <<>> ELSE working_memory)
               /\ episodic_memory' =
                    (IF t \in {"episodic", "all"} THEN <<>> ELSE episodic_memory)
               /\ semantic_memory' =
                    (IF t \in {"semantic", "all"} THEN <<>> ELSE semantic_memory)
               /\ access_counts' = EmptyMap
               /\ last_access' = EmptyMap]_vars

\* clear('working') was called on an episodic memory after a recall: the
\* buffer still holds its items and the access counts are gone.
C18_Witness ==
    /\ memory_call.op = "clear" /\ memory_call.cleared = "working"
    /\ memory_type = "episodic" /\ memory_call.recalls >= 1
    /\ Len(episodic_memory) >= 1
    /\ access_counts = EmptyMap

\* C30: a store that evicts leaves access_counts and last_access as they
\* were and every entry of priorities in place, the victim's among them, and
\* touches neither the working nor the semantic store; every item of the
\* episodic buffer has an entry in priorities; and a call after which an
\* entry of priorities is gone is clear('episodic') or clear(None).
C30_EvictionKeepsTables ==
    [][ /\ (memory_call'.op = "store" /\ memory_call'.evicted)
            => /\ access_counts' = access_counts
               /\ last_access' = last_access
               /\ \A id \in DOMAIN priorities :
                     id \in DOMAIN priorities' /\ priorities'[id] = priorities[id]
               /\ memory_call'.victim.id \in DOMAIN priorities'
               /\ working_memory' = working_memory
               /\ semantic_memory' = semantic_memory
        /\ \A i \in 1..Len(episodic_memory') :
              episodic_memory'[i].id \in DOMAIN priorities'
        /\ ~(DOMAIN priorities \subseteq DOMAIN priorities')
            => (memory_call'.op = "clear"
                /\ memory_call'.cleared \in {"episodic", "all"})
      ]_vars

\* A store has evicted an item that had been recalled: the item is out of
\* the buffer, its entries are in priorities and access_counts, and
\* priorities has more entries than the capacity.
C30_Witness ==
    /\ memory_call.op = "store" /\ memory_call.evicted
    /\ capacity >= 1
    /\ \A i \in 1..Len(episodic_memory) :
          episodic_memory[i].id # memory_call.victim.id
    /\ memory_call.victim.id \in DOMAIN priorities
    /\ memory_call.victim.id \in DOMAIN access_counts
    /\ Cardinality(DOMAIN priorities) > capacity

====
